---- MODULE Spec2Model ----
(***************************************************************************)
(* Breaking Version Detector (bvd): version comparison, constraint         *)
(* boundedness, configuration merge and the issue-detection pipeline.      *)
(*                                                                         *)
(* A Python str is modelled as a sequence of one-character strings, so     *)
(* that the regular expressions of the source are computed character by    *)
(* character.  Python's None is the one-element sequence <<"None">>, which *)
(* no str can equal.                                                       *)
(***************************************************************************)
EXTENDS Integers, Sequences, FiniteSets, TLC

VARIABLES
    pc,            \* position of the run under the specification in force
    old_in,        \* what the old version string was written from
    new_in,        \* what the new version string was written from
    old_ver,       \* compare_versions / analyze_version_change: argument
    new_ver,       \* compare_versions / analyze_version_change: argument
    version_diff,  \* result of compare_versions(old_ver, new_ver)
    issue_type,    \* result of analyze_version_change(old_ver, new_ver)
    clauses,       \* the clauses a constraint was written from (<<>>: from none)
    constraint,    \* is_version_bound: argument
    bound,         \* result of is_version_bound(constraint)
    extracted_version, \* result of extracting the version from constraint
    config_arg,    \* the config the caller hands to VersionDetector(config)
    config,        \* self.config of the detector
    old_content,   \* providers of the file at the base revision, or None
    new_content,   \* providers of the file as it is now
    changes,       \* result of get_dependency_changes for the file
    issues,        \* result of detect_issues: the issues found so far
    files,         \* detect_issues: the file_paths argument, each with its contents
    next_file,     \* detect_issues: position of the loop over file_paths
    exit_code,     \* status the command exits with
    format,        \* report_issues: the format argument
    report,        \* result of report_issues(issues, format)
    issues_again   \* result of a second detect_issues on the same file_paths

semverVars == <<old_in, new_in, old_ver, new_ver, version_diff, issue_type>>

constraintVars == <<clauses, constraint, bound, extracted_version>>

configVars == <<config_arg, config>>

fileVars == <<old_content, new_content, changes, issues>>

runVars == <<files, next_file, exit_code, format, report, issues_again>>

vars == <<pc, semverVars, constraintVars, configVars, fileVars, runVars>>

None == <<"None">>

(***************************************************************************)
(* Characters and character classes of the regular expressions.            *)
(***************************************************************************)
DigitChars == <<"0", "1", "2", "3", "4", "5", "6", "7", "8", "9">>

LowerChars ==
    <<"a", "b", "c", "d", "e", "f", "g", "h", "i", "j", "k", "l", "m",
      "n", "o", "p", "q", "r", "s", "t", "u", "v", "w", "x", "y", "z">>

UpperChars ==
    <<"A", "B", "C", "D", "E", "F", "G", "H", "I", "J", "K", "L", "M",
      "N", "O", "P", "Q", "R", "S", "T", "U", "V", "W", "X", "Y", "Z">>

SeqRange(t) == {t[i] : i \in 1..Len(t)}

Digits == SeqRange(DigitChars)

LowerLetters == SeqRange(LowerChars)

UpperLetters == SeqRange(UpperChars)

\* \d
IsDigit(ch) == ch \in Digits

\* \s, and the characters str.strip() removes
IsSpace(ch) == ch \in {" ", "\t", "\n"}

\* [a-zA-Z0-9\-\.] of the pre-release suffix of the semver patterns
IsSuffixChar(ch) ==
    \/ ch \in LowerLetters
    \/ ch \in UpperLetters
    \/ IsDigit(ch)
    \/ ch \in {"-", "."}

\* re.IGNORECASE of packaging's version pattern
Lower(ch) ==
    IF ch \in UpperLetters
    THEN LowerChars[CHOOSE i \in 1..Len(UpperChars) : UpperChars[i] = ch]
    ELSE ch

LowerStr(s) == [i \in 1..Len(s) |-> Lower(s[i])]

DigitVal(ch) == (CHOOSE i \in 1..Len(DigitChars) : DigitChars[i] = ch) - 1

\* int() of a run of digits
RECURSIVE ParseInt(_)
ParseInt(ds) ==
    IF Len(ds) = 0 THEN 0
    ELSE 10 * ParseInt(SubSeq(ds, 1, Len(ds) - 1)) + DigitVal(ds[Len(ds)])

\* The first position >= i of s that holds no digit (Len(s) + 1 if none):
\* where a greedy \d+ started at i stops.
RECURSIVE DigitRunEnd(_, _)
DigitRunEnd(s, i) ==
    IF i <= Len(s) /\ IsDigit(s[i]) THEN DigitRunEnd(s, i + 1) ELSE i

\* Where a greedy [a-zA-Z0-9\-\.]+ started at i stops.
RECURSIVE SuffixRunEnd(_, _)
SuffixRunEnd(s, i) ==
    IF i <= Len(s) /\ IsSuffixChar(s[i]) THEN SuffixRunEnd(s, i + 1) ELSE i

RECURSIVE SpaceRunEnd(_, _)
SpaceRunEnd(s, i) ==
    IF i <= Len(s) /\ IsSpace(s[i]) THEN SpaceRunEnd(s, i + 1) ELSE i

RECURSIVE SpaceRunStart(_, _)
SpaceRunStart(s, j) ==
    IF j >= 1 /\ IsSpace(s[j]) THEN SpaceRunStart(s, j - 1) ELSE j

\* str.strip()
strip(s) == SubSeq(s, SpaceRunEnd(s, 1), SpaceRunStart(s, Len(s)))

\* s holds the characters of w from position p on
HasPrefixAt(s, p, w) ==
    /\ p + Len(w) - 1 <= Len(s)
    /\ \A k \in 1..Len(w) : s[p + k - 1] = w[k]

(***************************************************************************)
(* packaging.version.parse: the PEP 440 pattern                            *)
(*   v? (epoch!)? release (pre)? (post)? (dev)? (+local)?                  *)
(* between optional white space, letters in either case.  The optional     *)
(* parts after the release are matched as the pattern's automaton does:    *)
(* each operator maps the set of positions reached so far to the set       *)
(* reached after its part.                                                 *)
(***************************************************************************)
PreLabels ==
    { <<"a", "l", "p", "h", "a">>, <<"a">>, <<"b", "e", "t", "a">>, <<"b">>,
      <<"p", "r", "e", "v", "i", "e", "w">>, <<"p", "r", "e">>, <<"c">>,
      <<"r", "c">> }

PostLabels == { <<"p", "o", "s", "t">>, <<"r", "e", "v">>, <<"r">> }

DevLabels == { <<"d", "e", "v">> }

\* [-_\.]?
AfterSep(u, P) ==
    P \cup {p + 1 : p \in {q \in P : q <= Len(u) /\ u[q] \in {"-", "_", "."}}}

AfterLabel(u, P, Labels) ==
    UNION { {p + Len(l) : l \in {m \in Labels : HasPrefixAt(u, p, m)}} : p \in P }

\* ([0-9]+)?
AfterOptDigits(u, P) ==
    P \cup UNION { (p + 1)..(DigitRunEnd(u, p) ) : p \in P }

\* [-_\.]? label [-_\.]? ([0-9]+)?
AfterTagged(u, P, Labels) ==
    AfterOptDigits(u, AfterSep(u, AfterLabel(u, AfterSep(u, P), Labels)))

\* -[0-9]+ , the implicit post release
AfterPostNumber(u, P) ==
    UNION { (p + 2)..DigitRunEnd(u, p + 1) :
                p \in {q \in P : q <= Len(u) /\ u[q] = "-"} }

AfterPre(u, P) == P \cup AfterTagged(u, P, PreLabels)

AfterPost(u, P) == P \cup AfterPostNumber(u, P) \cup AfterTagged(u, P, PostLabels)

AfterDev(u, P) == P \cup AfterTagged(u, P, DevLabels)

\* [a-z0-9]+(?:[-_\.][a-z0-9]+)* up to the end of u, from position p
RECURSIVE LocalRest(_, _, _)
LocalRest(u, p, needAlnum) ==
    IF p > Len(u) THEN ~needAlnum
    ELSE IF IsDigit(u[p]) \/ u[p] \in LowerLetters
         THEN LocalRest(u, p + 1, FALSE)
         ELSE /\ ~needAlnum
              /\ u[p] \in {"-", "_", "."}
              /\ LocalRest(u, p + 1, TRUE)

\* (?:\+local)? and the end of the string
EndsAt(u, p) ==
    \/ p = Len(u) + 1
    \/ p <= Len(u) /\ u[p] = "+" /\ LocalRest(u, p + 1, TRUE)

\* The end of [0-9]+(?:\.[0-9]+)* started at i (i itself when no digit is there)
RECURSIVE ReleaseEnd(_, _)
ReleaseEnd(u, i) ==
    LET e == DigitRunEnd(u, i) IN
    IF e = i THEN i
    ELSE IF e + 1 <= Len(u) /\ u[e] = "." /\ IsDigit(u[e + 1])
         THEN ReleaseEnd(u, e + 1)
         ELSE e

\* The release segment "1.2.3" as the tuple of its numbers <<1, 2, 3>>
RECURSIVE ReleaseNumbers(_)
ReleaseNumbers(r) ==
    LET e == DigitRunEnd(r, 1) IN
    IF e > Len(r) THEN <<ParseInt(r)>>
    ELSE <<ParseInt(SubSeq(r, 1, e - 1))>> \o ReleaseNumbers(SubSeq(r, e + 1, Len(r)))

\* version.parse(s): None stands for InvalidVersion, otherwise the triple
\* <<major, minor, micro>> of the Version's properties.
\* Version.major, Version.minor, Version.micro of a release tuple
MajorMinorMicro(rel) ==
    << rel[1],
       IF Len(rel) >= 2 THEN rel[2] ELSE 0,
       IF Len(rel) >= 3 THEN rel[3] ELSE 0 >>

\* (pre)? (post)? (dev)? (+local)? match the whole of tail
TailMatches(tail) ==
    \E p \in AfterDev(tail, AfterPost(tail, AfterPre(tail, {1}))) : EndsAt(tail, p)

\* The position after v? when the optional v starts at 1
AfterV(u) == IF Len(u) >= 1 /\ u[1] = "v" THEN 2 ELSE 1

\* The position after (epoch!)? started at i0, ep being the end of the
\* digits at i0
AfterEpoch(u, i0, ep) ==
    IF ep > i0 /\ ep <= Len(u) /\ u[ep] = "!" THEN ep + 1 ELSE i0

\* The version whose release segment is u[i1 .. re - 1]
ParsedWithRelease(u, i1, re) ==
    IF re = i1 THEN None
    ELSE IF TailMatches(SubSeq(u, re, Len(u)))
         THEN MajorMinorMicro(ReleaseNumbers(SubSeq(u, i1, re - 1)))
         ELSE None

ParsedFromRelease(u, i1) == ParsedWithRelease(u, i1, ReleaseEnd(u, i1))

ParsedAfterV(u, i0) == ParsedFromRelease(u, AfterEpoch(u, i0, DigitRunEnd(u, i0)))

ParsedLowered(u) == ParsedAfterV(u, AfterV(u))

VersionParse(s) == ParsedLowered(LowerStr(strip(s)))

(***************************************************************************)
(* bvd/semver.py                                                           *)
(***************************************************************************)
\* The match of \d+(?:\.\d+)?(?:\.\d+)?(?:-[a-zA-Z0-9\-\.]+)? started at i,
\* as the position after its last character.
OptDotDigits(s, e) ==
    IF e + 1 <= Len(s) /\ s[e] = "." /\ IsDigit(s[e + 1])
    THEN DigitRunEnd(s, e + 1)
    ELSE e

OptSuffix(s, e) ==
    IF e + 1 <= Len(s) /\ s[e] = "-" /\ IsSuffixChar(s[e + 1])
    THEN SuffixRunEnd(s, e + 1)
    ELSE e

\* The first position >= i of s that holds a digit (Len(s) + 1 if none)
RECURSIVE FirstDigit(_, _)
FirstDigit(s, i) ==
    IF i <= Len(s) /\ ~IsDigit(s[i]) THEN FirstDigit(s, i + 1) ELSE i

\* Faulty variant of extract_version_from_constraint: the pattern is matched
\* at the start of the constraint only (re.match for re.search).
extract_version_from_constraint_anchored(c) ==
    IF c = <<>> \/ ~IsDigit(c[1]) THEN None
    ELSE SubSeq(c, 1, OptSuffix(c, OptDotDigits(c, OptDotDigits(c, DigitRunEnd(c, 1)))) - 1)

extract_version_from_constraint(c) ==
    LET i == FirstDigit(c, 1)
        e == OptSuffix(c,
                 OptDotDigits(c,
                     OptDotDigits(c, DigitRunEnd(c, i))))
    IN  IF i > Len(c) THEN None ELSE SubSeq(c, i, e - 1)

is_valid_semver(version_str) == VersionParse(version_str) # None

\* Faulty variant of compare_versions: the differences taken old minus new.
ReversedDifference(old_v, new_v) ==
    IF old_v = None \/ new_v = None THEN None
    ELSE << old_v[1] - new_v[1], old_v[2] - new_v[2], old_v[3] - new_v[3] >>

\* Faulty variant of compare_versions: two versions with the same three
\* components and different text are told apart in the patch component.
compare_versions_tag_ordered(old, new) ==
    IF VersionParse(old) # None /\ VersionParse(old) = VersionParse(new) /\ old # new
    THEN <<0, 0, 1>>
    ELSE ReversedDifference(VersionParse(new), VersionParse(old))

compare_versions_reversed(old, new) ==
    ReversedDifference(VersionParse(old), VersionParse(new))

\* The body of compare_versions' try block, None for InvalidVersion
ParsedDifference(old_v, new_v) ==
    IF old_v = None \/ new_v = None THEN None
    ELSE << new_v[1] - old_v[1], new_v[2] - old_v[2], new_v[3] - old_v[3] >>

compare_versions(old, new) == ParsedDifference(VersionParse(old), VersionParse(new))

(***************************************************************************)
(* bvd/parsers/terraform.py: TerraformParser.is_version_bound              *)
(***************************************************************************)
\* re.match(r"^\s*" + literal, c)
MatchesLiteral(c, literal) == HasPrefixAt(c, SpaceRunEnd(c, 1), literal)

\* re.match(r"^\s*\*\s*$", c)
MatchesWildcard(c) ==
    LET i == SpaceRunEnd(c, 1) IN
    /\ i <= Len(c)
    /\ c[i] = "*"
    /\ SpaceRunEnd(c, i + 1) = Len(c) + 1

\* re.match(r"^\s*\d+", c)
MatchesDigits(c) ==
    LET i == SpaceRunEnd(c, 1) IN i <= Len(c) /\ IsDigit(c[i])

\* unbound_patterns
MatchesUnboundPattern(c) ==
    \/ MatchesLiteral(c, <<">", "=">>)
    \/ MatchesLiteral(c, <<">">>)
    \/ MatchesWildcard(c)

\* bound_operators
MatchesBoundOperator(c) ==
    \/ MatchesLiteral(c, <<"~", ">">>)
    \/ MatchesLiteral(c, <<"=">>)
    \/ MatchesDigits(c)

\* Faulty variant of is_version_bound: the extracted version is not validated.
is_version_bound_unvalidated(constraint_arg) ==
    LET c == strip(constraint_arg) IN
    IF MatchesUnboundPattern(c) THEN FALSE
    ELSE /\ MatchesBoundOperator(c)
         /\ extract_version_from_constraint(c) # None

\* if version_str and is_valid_semver(version_str)
IsValidVersionStr(version_str) ==
    /\ version_str # None
    /\ version_str # <<>>
    /\ is_valid_semver(version_str)

\* is_version_bound after constraint = constraint.strip()
IsBoundStripped(c) ==
    IF MatchesUnboundPattern(c) THEN FALSE
    ELSE /\ MatchesBoundOperator(c)
         /\ IsValidVersionStr(extract_version_from_constraint(c))

is_version_bound(constraint_arg) == IsBoundStripped(strip(constraint_arg))

(***************************************************************************)
(* bvd/core.py: VersionDetector.analyze_version_change                     *)
(***************************************************************************)
NoIssueType == "None"

\* Faulty variant of analyze_version_change: the minor difference is examined
\* before the major one.
KindOfDifferenceMinorFirst(diff) ==
    IF diff = None THEN NoIssueType
    ELSE IF diff[2] > 0 THEN "minor_version_bump"
    ELSE IF diff[2] < 0 THEN "minor_version_downgrade"
    ELSE IF diff[1] > 0 THEN "major_version_bump"
    ELSE IF diff[1] < 0 THEN "major_version_downgrade"
    ELSE IF diff[3] > 0 THEN "patch_version_bump"
    ELSE IF diff[3] < 0 THEN "patch_version_downgrade"
    ELSE NoIssueType

analyze_version_change_minor_first(old, new) ==
    KindOfDifferenceMinorFirst(compare_versions(old, new))

\* analyze_version_change once compare_versions has returned version_diff
KindOfDifference(diff) ==
    IF diff = None THEN NoIssueType
    ELSE IF diff[1] > 0 THEN "major_version_bump"
    ELSE IF diff[1] < 0 THEN "major_version_downgrade"
    ELSE IF diff[2] > 0 THEN "minor_version_bump"
    ELSE IF diff[2] < 0 THEN "minor_version_downgrade"
    ELSE IF diff[3] > 0 THEN "patch_version_bump"
    ELSE IF diff[3] < 0 THEN "patch_version_downgrade"
    ELSE NoIssueType

analyze_version_change(old, new) == KindOfDifference(compare_versions(old, new))

(***************************************************************************)
(* bvd/parsers/base.py: DependencyParser.extract_version, which            *)
(* TerraformParser inherits                                                *)
(***************************************************************************)
\* The match of \d+\.\d+\.\d+(?:-[a-zA-Z0-9\-\.]+)? started at i, as the
\* position after its last character; 0 when there is no match at i.
FullSemverEnd(s, i) ==
    LET e1 == DigitRunEnd(s, i)
        e2 == DigitRunEnd(s, e1 + 1)
        e3 == DigitRunEnd(s, e2 + 1)
    IN  IF /\ e1 > i
           /\ e1 <= Len(s) /\ s[e1] = "." /\ e2 > e1 + 1
           /\ e2 <= Len(s) /\ s[e2] = "." /\ e3 > e2 + 1
        THEN OptSuffix(s, e3)
        ELSE 0

\* re.search: the leftmost position at which the pattern matches
RECURSIVE SearchFullSemver(_, _)
SearchFullSemver(s, i) ==
    IF i > Len(s) THEN None
    ELSE IF FullSemverEnd(s, i) # 0 THEN SubSeq(s, i, FullSemverEnd(s, i) - 1)
    ELSE SearchFullSemver(s, i + 1)

extract_version(c) == SearchFullSemver(c, 1)

(***************************************************************************)
(* bvd/types.py                                                            *)
(***************************************************************************)
Severities == {"info", "warning", "error", "critical"}

IssueTypes ==
    { "major_version_bump", "minor_version_bump", "patch_version_bump",
      "major_version_downgrade", "minor_version_downgrade",
      "patch_version_downgrade", "unbound_version", "loose_constraint" }

VersionChange(name, old_v, new_v, old_c, new_c, path) ==
    [ package_name |-> name,
      old_version |-> old_v,
      new_version |-> new_v,
      old_constraint |-> old_c,
      new_constraint |-> new_c,
      file_path |-> path ]

Issue(severity, type, message, change, suggestion) ==
    [ severity |-> severity,
      issue_type |-> type,
      message |-> message,
      change |-> change,
      suggestion |-> suggestion ]

(***************************************************************************)
(* bvd/parsers/terraform.py: TerraformParser.parse_dependencies, from the  *)
(* required_providers entries hcl2 has read: each entry is the provider's  *)
(* source and version constraint.                                          *)
(***************************************************************************)
ParsedProvider(provider, file_path) ==
    LET extracted == extract_version(provider.version) IN
    VersionChange(provider.source,
                  None,
                  IF extracted # None THEN extracted ELSE provider.version,
                  None,
                  provider.version,
                  file_path)

\* A version value hcl2 reads that is no str (a number, a list)
NonStrVersion == <<"<not a str>">>

\* The changes appended before the loop ends or extract_version raises
\* TypeError on a version that is no str
RECURSIVE ParsedUntilRaise(_, _, _)
ParsedUntilRaise(file_path, providers, i) ==
    IF i > Len(providers) THEN <<>>
    ELSE IF providers[i].version = NonStrVersion THEN <<>>
    ELSE <<ParsedProvider(providers[i], file_path)>>
             \o ParsedUntilRaise(file_path, providers, i + 1)

\* The exception handler of parse_dependencies returns the changes made so
\* far
parse_dependencies(file_path, providers) == ParsedUntilRaise(file_path, providers, 1)

(***************************************************************************)
(* bvd/core.py: VersionDetector                                            *)
(*                                                                         *)
(* A Python value of the configuration is [type, items]: a dict with its   *)
(* mapping, a list with its sequence, or None.  A dict is a function on    *)
(* its keys.                                                               *)
(***************************************************************************)
EmptyDict == [k \in {} |-> "info"]

PyDict(f) == [type |-> "dict", items |-> f]
PyList(q) == [type |-> "list", items |-> q]
PyNone == [type |-> "NoneType", items |-> <<>>]

\* bool(value)
Truthy(value) ==
    CASE value.type = "dict" -> DOMAIN value.items # {}
      [] value.type = "list" -> value.items # <<>>
      [] OTHER -> FALSE

\* dict.update
DictUpdate(d, u) ==
    [k \in DOMAIN d \cup DOMAIN u |-> IF k \in DOMAIN u THEN u[k] ELSE d[k]]

DefaultRules ==
    [ major_version_bump |-> "critical",
      minor_version_bump |-> "warning",
      patch_version_bump |-> "info",
      major_version_downgrade |-> "critical",
      minor_version_downgrade |-> "warning",
      patch_version_downgrade |-> "warning",
      unbound_version |-> "error",
      loose_constraint |-> "warning" ]

DefaultCriticalPackages ==
    [p \in {"hashicorp/aws", "hashicorp/kubernetes"} |-> "critical"]

_default_config ==
    [ rules |-> PyDict(DefaultRules),
      ignore_packages |-> PyList(<<>>),
      critical_packages |-> PyDict(DefaultCriticalPackages) ]

\* The loop body of __init__ for one key of the user's config
MergedValue(default, user, key) ==
    IF key \notin DOMAIN user THEN default[key]
    ELSE IF key = "rules" /\ user[key].type = "dict"
         THEN PyDict(DictUpdate(default[key].items, user[key].items))
         ELSE user[key]

\* Faulty variant of __init__: the user's rules replace the default rules.
VersionDetector_init_rules_replaced(arg) ==
    IF arg.given /\ DOMAIN arg.dict # {}
    THEN [key \in DOMAIN _default_config |->
             IF key \in DOMAIN arg.dict THEN arg.dict[key] ELSE _default_config[key]]
    ELSE _default_config

\* Faulty variant of __init__: a dict the user supplies is merged into the
\* default of its key, for every key.
VersionDetector_init_all_merged(arg) ==
    IF arg.given /\ DOMAIN arg.dict # {}
    THEN [key \in DOMAIN _default_config |->
             IF key \in DOMAIN arg.dict /\ arg.dict[key].type = "dict"
             THEN PyDict(DictUpdate(_default_config[key].items, arg.dict[key].items))
             ELSE MergedValue(_default_config, arg.dict, key)]
    ELSE _default_config

\* VersionDetector.__init__: self.config.  arg.given is FALSE for
\* VersionDetector() and VersionDetector(None); an empty dict is falsy too.
VersionDetector_init(arg) ==
    IF arg.given /\ DOMAIN arg.dict # {}
    THEN [key \in DOMAIN _default_config |->
             MergedValue(_default_config, arg.dict, key)]
    ELSE _default_config

\* self.config[key] is the very object config[key] of the caller:
\* self.config[key] = value binds the caller's object, while the entries of
\* a rules dict are copied into the rules of the default configuration
SharesObject(arg, key) ==
    /\ arg.given
    /\ DOMAIN arg.dict # {}
    /\ key \in DOMAIN arg.dict
    /\ ~(key = "rules" /\ arg.dict[key].type = "dict")

\* self.config.get("ignore_packages") or []
IgnoredPackages(cfg) ==
    IF Truthy(cfg.ignore_packages) THEN cfg.ignore_packages.items ELSE <<>>

\* self.config.get("critical_packages") or {}
CriticalPackages(cfg) ==
    IF Truthy(cfg.critical_packages) THEN cfg.critical_packages.items ELSE EmptyDict

\* Faulty variant of _should_ignore_package: nothing is ignored.
_should_ignore_package_never(cfg, package_name) == FALSE

_should_ignore_package(cfg, package_name) ==
    package_name \in SeqRange(IgnoredPackages(cfg))

\* The place of a severity in INFO < WARNING < ERROR < CRITICAL
SeverityRank(severity) ==
    CASE severity = "info" -> 1
      [] severity = "warning" -> 2
      [] severity = "error" -> 3
      [] severity = "critical" -> 4

\* Faulty variant of _resolve_severity: the override only raises the
\* severity.
_resolve_severity_higher_of(cfg, base_severity, package_name) ==
    IF /\ package_name \in DOMAIN CriticalPackages(cfg)
       /\ SeverityRank(CriticalPackages(cfg)[package_name]) > SeverityRank(base_severity)
    THEN CriticalPackages(cfg)[package_name]
    ELSE base_severity

\* Faulty variant of _resolve_severity: the override is not consulted.
_resolve_severity_no_override(cfg, base_severity, package_name) == base_severity

_resolve_severity(cfg, base_severity, package_name) ==
    IF package_name \in DOMAIN CriticalPackages(cfg)
    THEN CriticalPackages(cfg)[package_name]
    ELSE base_severity

\* self.config["rules"][issue_type] raises when rules is no dict (a dict
\* holds every kind: __init__ only adds to the default rules)
RulesLookupRaises(cfg) == cfg.rules.type # "dict"

\* Faulty variant of _get_unbound_constraint_suggestion: the constraint is
\* compared untrimmed.
_get_unbound_constraint_suggestion_untrimmed(change) ==
    IF change.new_constraint = <<"*">>
    THEN [ text |-> "Wildcard constraints are strictly forbidden. Use a specific version like '= 1.2.3' or a bounded constraint like '~> 1.2'" ]
    ELSE [ text |-> "Consider using '~> {new_version}' to bound to major version",
           new_version |-> change.new_version ]

\* Faulty variant of _get_unbound_constraint_suggestion: the text names the
\* file.
_get_unbound_constraint_suggestion_with_file(change) ==
    IF strip(change.new_constraint) = <<"*">>
    THEN [ text |-> "Wildcard constraints are strictly forbidden in {file_path}. Use a specific version like '= 1.2.3' or a bounded constraint like '~> 1.2'",
           file_path |-> change.file_path ]
    ELSE [ text |-> "Consider using '~> {new_version}' in {file_path} to bound to major version",
           new_version |-> change.new_version,
           file_path |-> change.file_path ]

_get_unbound_constraint_suggestion(change) ==
    IF strip(change.new_constraint) = <<"*">>
    THEN [ text |-> "Wildcard constraints are strictly forbidden. Use a specific version like '= 1.2.3' or a bounded constraint like '~> 1.2'" ]
    ELSE [ text |-> "Consider using '~> {new_version}' to bound to major version",
           new_version |-> change.new_version ]

_create_unbound_version_issue(cfg, change) ==
    Issue(_resolve_severity(cfg, cfg.rules.items["unbound_version"], change.package_name),
          "unbound_version",
          [ text |-> "Unbound version constraint '{new_constraint}' for {package_name}",
            new_constraint |-> change.new_constraint,
            package_name |-> change.package_name ],
          change,
          _get_unbound_constraint_suggestion(change))

VersionChangeMessage(type, change) ==
    [ text |->
        CASE type = "major_version_downgrade" ->
               "Major version downgrade detected: {package_name} downgraded from {old_version} to {new_version} - potential feature loss and security vulnerabilities"
          [] type = "minor_version_downgrade" ->
               "Minor version downgrade detected: {package_name} downgraded from {old_version} to {new_version} - potential feature loss and missing bug fixes"
          [] type = "patch_version_downgrade" ->
               "Patch version downgrade detected: {package_name} downgraded from {old_version} to {new_version} - missing bug fixes and security patches"
          [] type = "major_version_bump" ->
               "Major Version Bump detected: {package_name} changed from {old_version} to {new_version}"
          [] type = "minor_version_bump" ->
               "Minor Version Bump detected: {package_name} changed from {old_version} to {new_version}"
          [] type = "patch_version_bump" ->
               "Patch Version Bump detected: {package_name} changed from {old_version} to {new_version}",
      package_name |-> change.package_name,
      old_version |-> change.old_version,
      new_version |-> change.new_version ]

VersionChangeSuggestion(type, change) ==
    CASE type = "major_version_downgrade" ->
           [ text |-> "Review {package_name} changelog for removed features and fixes. Verify your code doesn't depend on features from {old_version}. Consider security implications of missing patches.",
             package_name |-> change.package_name,
             old_version |-> change.old_version ]
      [] type = "minor_version_downgrade" ->
           [ text |-> "Review {package_name} changelog for removed features and bug fixes. Verify your code doesn't depend on features from {old_version}.",
             package_name |-> change.package_name,
             old_version |-> change.old_version ]
      [] type = "patch_version_downgrade" ->
           [ text |-> "Review {package_name} changelog for bug fixes and security patches that may be missing in version {new_version}.",
             package_name |-> change.package_name,
             new_version |-> change.new_version ]
      [] OTHER ->
           [ text |-> "Review breaking changes in {package_name} changelog between versions {old_version} and {new_version}",
             package_name |-> change.package_name,
             old_version |-> change.old_version,
             new_version |-> change.new_version ]

\* An Optional[Issue] is the sequence of the issue, empty for None:
\* _create_version_change_issue returns None when analyze_version_change
\* finds no kind.
IssueOfKind(cfg, change, type) ==
    IF type = NoIssueType THEN <<>>
    ELSE << Issue(_resolve_severity(cfg, cfg.rules.items[type], change.package_name),
                  type,
                  VersionChangeMessage(type, change),
                  change,
                  VersionChangeSuggestion(type, change)) >>

_create_version_change_issue(cfg, change) ==
    IssueOfKind(cfg, change,
                analyze_version_change(change.old_version, change.new_version))

\* if change.old_version and change.old_version != change.new_version
VersionChanged(change) ==
    /\ change.old_version # None
    /\ change.old_version # <<>>
    /\ change.old_version # change.new_version

\* Faulty variant of _process_dependency_change: the version check is made
\* for a bound constraint only.
_process_dependency_change_either(cfg, change) ==
    IF ~is_version_bound(change.new_constraint)
    THEN <<_create_unbound_version_issue(cfg, change)>>
    ELSE IF VersionChanged(change)
         THEN _create_version_change_issue(cfg, change)
         ELSE <<>>

\* Faulty variant of _process_dependency_change: the unbound check is made
\* only for a dependency that has an old version.
_process_dependency_change_old_only(cfg, change) ==
    (IF ~is_version_bound(change.new_constraint) /\ change.old_version # None
     THEN <<_create_unbound_version_issue(cfg, change)>>
     ELSE <<>>)
    \o
    (IF VersionChanged(change)
     THEN _create_version_change_issue(cfg, change)
     ELSE <<>>)

\* Faulty variant of _process_dependency_change: the version check is made
\* before the unbound check.
_process_dependency_change_version_first(cfg, change) ==
    (IF VersionChanged(change)
     THEN _create_version_change_issue(cfg, change)
     ELSE <<>>)
    \o
    (IF ~is_version_bound(change.new_constraint)
     THEN <<_create_unbound_version_issue(cfg, change)>>
     ELSE <<>>)

_process_dependency_change(cfg, change) ==
    (IF ~is_version_bound(change.new_constraint)
     THEN <<_create_unbound_version_issue(cfg, change)>>
     ELSE <<>>)
    \o
    (IF VersionChanged(change)
     THEN _create_version_change_issue(cfg, change)
     ELSE <<>>)

\* _process_dependency_change raises for this change: an issue is to be
\* created and the rules lookup fails
ChangeRaises(cfg, change) ==
    /\ RulesLookupRaises(cfg)
    /\ \/ ~is_version_bound(change.new_constraint)
       \/ /\ VersionChanged(change)
          /\ analyze_version_change(change.old_version, change.new_version)
                 # NoIssueType

\* {dep.package_name: dep for dep in deps}: the keys in insertion order (the
\* first occurrence of each name), each with the last dep of its name
RECURSIVE DictKeys(_, _)
DictKeys(deps, i) ==
    IF i > Len(deps) THEN <<>>
    ELSE IF \E j \in 1..(i - 1) : deps[j].package_name = deps[i].package_name
         THEN DictKeys(deps, i + 1)
         ELSE <<deps[i].package_name>> \o DictKeys(deps, i + 1)

DictValue(deps, name) ==
    deps[CHOOSE i \in 1..Len(deps) :
            /\ deps[i].package_name = name
            /\ \A j \in (i + 1)..Len(deps) : deps[j].package_name # name]

HasKey(deps, name) == \E i \in 1..Len(deps) : deps[i].package_name = name

\* Faulty variant of the loop body: the old constraint is not copied.
WithOldVersion_version_only(old_deps, current_dep) ==
    IF HasKey(old_deps, current_dep.package_name)
    THEN [current_dep EXCEPT
             !.old_version = DictValue(old_deps, current_dep.package_name).new_version]
    ELSE current_dep

\* The loop body of get_dependency_changes for one key of current_dep_map
WithOldVersion(old_deps, current_dep) ==
    IF HasKey(old_deps, current_dep.package_name)
    THEN [current_dep EXCEPT
             !.old_version = DictValue(old_deps, current_dep.package_name).new_version,
             !.old_constraint = DictValue(old_deps, current_dep.package_name).new_constraint]
    ELSE current_dep

\* Faulty variant of get_dependency_changes: the packages only the old file
\* declares are reported too, after those of the current file.
get_dependency_changes_with_removed(file_path, old, current) ==
    LET current_deps == parse_dependencies(file_path, current) IN
    IF ~old.exists THEN current_deps
    ELSE LET old_deps == parse_dependencies(file_path, old.providers)
             keys == DictKeys(current_deps, 1)
         IN  [k \in 1..Len(keys) |->
                 WithOldVersion(old_deps, DictValue(current_deps, keys[k]))]
             \o SelectSeq(old_deps, LAMBDA d : ~HasKey(current_deps, d.package_name))

\* Faulty variant of get_dependency_changes: a file without old content
\* yields no changes.
get_dependency_changes_new_file_dropped(file_path, old, current) ==
    LET current_deps == parse_dependencies(file_path, current) IN
    IF ~old.exists THEN <<>>
    ELSE LET old_deps == parse_dependencies(file_path, old.providers)
             keys == DictKeys(current_deps, 1)
         IN  [k \in 1..Len(keys) |->
                 WithOldVersion(old_deps, DictValue(current_deps, keys[k]))]

\* old.exists is FALSE when get_file_content_at_ref returns None
get_dependency_changes(file_path, old, current) ==
    LET current_deps == parse_dependencies(file_path, current) IN
    IF ~old.exists THEN current_deps
    ELSE LET old_deps == parse_dependencies(file_path, old.providers)
             keys == DictKeys(current_deps, 1)
         IN  [k \in 1..Len(keys) |->
                 WithOldVersion(old_deps, DictValue(current_deps, keys[k]))]

RECURSIVE IssuesOfChanges(_, _, _)
IssuesOfChanges(cfg, chs, i) ==
    IF i > Len(chs) THEN <<>>
    ELSE IF _should_ignore_package(cfg, chs[i].package_name)
         THEN IssuesOfChanges(cfg, chs, i + 1)
         ELSE _process_dependency_change(cfg, chs[i]) \o IssuesOfChanges(cfg, chs, i + 1)

\* The issues of one file, chs being what get_dependency_changes returned
\* for it; an exception raised for any change that is not ignored empties
\* the file's result.
_process_file_for_issues(cfg, chs) ==
    IF \E i \in 1..Len(chs) :
           /\ ~_should_ignore_package(cfg, chs[i].package_name)
           /\ ChangeRaises(cfg, chs[i])
    THEN <<>>
    ELSE IssuesOfChanges(cfg, chs, 1)

\* str.endswith
EndsWith(s, w) == Len(s) >= Len(w) /\ HasPrefixAt(s, Len(s) - Len(w) + 1, w)

\* find_matching_parser(file_path) is not None: of the supported_files of
\* the one registered parser, "*.tf" matches every name the others equal
find_matching_parser(file_path) == EndsWith(file_path, <<".", "t", "f">>)

\* The current content of a file: unreadable (read_text raises), text
\* hcl2.loads rejects, or HCL with its required_providers entries
Unreadable == [kind |-> "unreadable", providers |-> <<>>]
Unparseable == [kind |-> "unparseable", providers |-> <<>>]
Hcl(providers) == [kind |-> "hcl", providers |-> providers]

\* get_dependency_changes for a file of the run: read_text raising leaves
\* changes empty, hcl2.loads raising leaves current_deps empty
FileChanges(f) ==
    IF f.current.kind = "unreadable" THEN <<>>
    ELSE get_dependency_changes(f.path, f.old, f.current.providers)

\* _process_file_for_issues(file_path, base_ref)
FileIssues(cfg, f) ==
    IF ~find_matching_parser(f.path) THEN <<>>
    ELSE _process_file_for_issues(cfg, FileChanges(f))

\* Faulty variant of the loop body of detect_issues: the file's issues
\* replace the list.
ExtendedIssues_replaced(acc, cfg, f) == FileIssues(cfg, f)

\* The loop body of detect_issues: issues.extend(...)
ExtendedIssues(acc, cfg, f) == acc \o FileIssues(cfg, f)

(***************************************************************************)
(* bvd/cli.py                                                              *)
(***************************************************************************)
(***************************************************************************)
(* bvd/core.py: VersionDetector.report_issues.  A JSON report is the list  *)
(* of its objects, a text report the list of its lines.                    *)
(***************************************************************************)
\* Issue.suggestion is None
NoSuggestion == [none |-> TRUE]

\* json.dumps(None)
JsonNull == [json |-> "null"]

JsonValue(value) == IF value = NoSuggestion THEN JsonNull ELSE value

\* One object of the JSON report
JsonObject(issue) ==
    [ severity |-> issue.severity,
      type |-> issue.issue_type,
      message |-> issue.message,
      file |-> issue.change.file_path,
      package |-> issue.change.package_name,
      suggestion |-> JsonValue(issue.suggestion) ]

\* One object of a JSON report that leaves the suggestion out when there is
\* none
JsonObjectWithoutNull(issue) ==
    IF issue.suggestion = NoSuggestion
    THEN [ severity |-> issue.severity,
           type |-> issue.issue_type,
           message |-> issue.message,
           file |-> issue.change.file_path,
           package |-> issue.change.package_name ]
    ELSE JsonObject(issue)

\* The lines of one issue in the text report
TextLines(issue) ==
    << [ line |-> "{emoji} {SEVERITY}: {message}",
         severity |-> issue.severity,
         message |-> issue.message ],
       [ line |-> "   File: {file_path}", file_path |-> issue.change.file_path ],
       [ line |-> "   Package: {package_name}",
         package_name |-> issue.change.package_name ] >>
    \o (IF issue.suggestion # NoSuggestion
        THEN << [ line |-> "   Suggestion: {suggestion}",
                  suggestion |-> issue.suggestion ] >>
        ELSE <<>>)
    \o << [line |-> ""] >>

RECURSIVE TextReport(_, _)
TextReport(iss, k) ==
    IF k > Len(iss) THEN <<>> ELSE TextLines(iss[k]) \o TextReport(iss, k + 1)

\* Faulty variant of report_issues: the JSON object of an issue without
\* suggestion has no suggestion field.
report_issues_without_null(iss, format_arg) ==
    IF format_arg = "json"
    THEN [objects |-> [k \in 1..Len(iss) |-> JsonObjectWithoutNull(iss[k])]]
    ELSE [lines |-> TextReport(iss, 1)]

report_issues(iss, format_arg) ==
    IF format_arg = "json"
    THEN [objects |-> [k \in 1..Len(iss) |-> JsonObject(iss[k])]]
    ELSE [lines |-> TextReport(iss, 1)]

\* detect_issues(file_paths) with this configuration: the loop over the
\* first n files
RECURSIVE detect_issues(_, _, _)
detect_issues(cfg, file_paths, n) ==
    IF n = 0 THEN <<>>
    ELSE ExtendedIssues(detect_issues(cfg, file_paths, n - 1), cfg, file_paths[n])

\* Faulty variant of the detector's state after detect_issues: the packages
\* reported are remembered in ignore_packages.
ConfigAfterDetection_reported_ignored(cfg, iss) ==
    IF cfg.ignore_packages.type = "list"
    THEN [cfg EXCEPT !.ignore_packages.items =
             @ \o [k \in 1..Len(iss) |-> iss[k].change.package_name]]
    ELSE cfg

\* self.config after detect_issues returned iss: no statement of
\* detect_issues or of the methods it calls assigns to self.config
ConfigAfterDetection(cfg, iss) == cfg

\* any(issue.severity in [Severity.ERROR, Severity.CRITICAL] ...)
has_errors(iss) == \E k \in 1..Len(iss) : iss[k].severity \in {"error", "critical"}

\* Faulty variant of main: any issue gives status 1.
main_exit_code_any_issue(iss) == IF iss # <<>> THEN 1 ELSE 0

\* main: the status of sys.exit after detection and report
main_exit_code(iss) == IF has_errors(iss) THEN 1 ELSE 0

\* check_file: sys.exit(1) when there are issues, else the command returns
check_file_exit_code(iss) == IF iss # <<>> THEN 1 ELSE 0

(***************************************************************************)
(* Version strings handed to compare_versions and analyze_version_change.  *)
(* A version is written from its release numbers and a suffix; the other   *)
(* inputs are texts that are no version.                                   *)
(***************************************************************************)
MaxComp == 2

\* str(n)
RECURSIVE NumStr(_)
NumStr(n) ==
    IF n < 10 THEN <<DigitChars[n + 1]>>
    ELSE NumStr(n \div 10) \o <<DigitChars[(n % 10) + 1]>>

RECURSIVE JoinDots(_)
JoinDots(nums) ==
    IF Len(nums) = 1 THEN NumStr(nums[1])
    ELSE NumStr(nums[1]) \o <<".">> \o JoinDots(Tail(nums))

Releases == UNION { [1..n -> 0..MaxComp] : n \in {1, 2, 3} }

\* no suffix, two pre-release tags, and a suffix that is no PEP 440 tag
PlainSuffix == <<>>
PreReleaseSuffix == <<"-", "a", "l", "p", "h", "a", ".", "1">>
ReleaseCandidateSuffix == <<"-", "r", "c", "1">>
ForeignSuffix == <<"-", "x">>

NotVersions ==
    { <<>>, <<"i", "n", "v", "a", "l", "i", "d">>, <<"~", ">", " ", "1", ".", "0">> }

VersionInputs ==
    [release : Releases,
     suffix : {PlainSuffix, PreReleaseSuffix, ReleaseCandidateSuffix, ForeignSuffix},
     text : {<<>>}]
    \cup [release : {<<>>}, suffix : {<<>>}, text : NotVersions]

WriteVersion(in) ==
    IF in.release = <<>> THEN in.text ELSE JoinDots(in.release) \o in.suffix

\* The inputs that are versions: "1", "1.2", "1.2.3", with or without a tag
Parses(in) == in.release # <<>> /\ in.suffix # ForeignSuffix

\* A missing minor or patch component counts as 0
Component(in, k) == IF k <= Len(in.release) THEN in.release[k] ELSE 0

FilePath == "main.tf"

ConstraintIdle ==
    clauses = <<>> /\ constraint = <<>> /\ bound = FALSE /\ extracted_version = None

NoConfigArg == [given |-> FALSE, dict |-> EmptyDict]

NoContent == [exists |-> FALSE, providers |-> <<>>]

ConfigIdle == config_arg = NoConfigArg /\ config = _default_config

FileIdle ==
    /\ old_content = NoContent
    /\ new_content = <<>>
    /\ changes = <<>>
    /\ issues = <<>>

\* No report made yet
NoReport == [lines |-> <<>>]

RunIdle ==
    /\ files = <<>>
    /\ next_file = 1
    /\ exit_code = 0
    /\ format = ""
    /\ report = NoReport
    /\ issues_again = <<>>

SemverInit ==
    /\ pc = "input"
    /\ ConstraintIdle
    /\ ConfigIdle
    /\ FileIdle
    /\ RunIdle
    /\ old_in \in VersionInputs
    /\ new_in \in VersionInputs
    /\ old_ver = WriteVersion(old_in)
    /\ new_ver = WriteVersion(new_in)
    /\ version_diff = None
    /\ issue_type = NoIssueType

CompareVersions ==
    /\ pc = "input"
    /\ version_diff' = compare_versions(old_ver, new_ver)
    /\ pc' = "compared"
    /\ UNCHANGED <<old_in, new_in, old_ver, new_ver, issue_type, constraintVars, configVars, fileVars, runVars>>

AnalyzeVersionChange ==
    /\ pc = "input"
    /\ issue_type' = analyze_version_change(old_ver, new_ver)
    /\ pc' = "analyzed"
    /\ UNCHANGED <<old_in, new_in, old_ver, new_ver, version_diff, constraintVars, configVars, fileVars, runVars>>

SemverNext == CompareVersions \/ AnalyzeVersionChange

SpecSemver == SemverInit /\ [][SemverNext]_vars

(***************************************************************************)
(* Constraint strings handed to is_version_bound: every string of up to    *)
(* MaxConstraintLen characters of ConstraintAlphabet, and the constraints  *)
(* written from up to MaxClauses comma-separated clauses.                  *)
(***************************************************************************)
MaxConstraintLen == 4

MaxClauses == 2

ConstraintAlphabet == {" ", ">", "=", "~", "<", "*", "1", ".", "-", "a"}

ShortConstraints == UNION { [1..n -> ConstraintAlphabet] : n \in 0..MaxConstraintLen }

GreaterEqual == <<">", "=">>
Greater == <<">">>
Less == <<"<">>
LessEqual == <<"<", "=">>
Equal == <<"=">>
Pessimistic == <<"~", ">">>
BareLiteral == <<>>
Wildcard == <<"*">>

ClauseOperators ==
    {GreaterEqual, Greater, Less, LessEqual, Equal, Pessimistic, BareLiteral}

ClauseVersions == { <<"1", ".", "0", ".", "0">>, <<"2", ".", "0">> }

Clauses ==
    [op : ClauseOperators, version : ClauseVersions]
    \cup {[op |-> Wildcard, version |-> <<>>]}

ClauseLists == UNION { [1..n -> Clauses] : n \in 1..MaxClauses }

WriteClause(cl) ==
    IF cl.op \in {Wildcard, BareLiteral} THEN cl.op \o cl.version
    ELSE cl.op \o <<" ">> \o cl.version

RECURSIVE WriteConstraint(_)
WriteConstraint(cls) ==
    IF Len(cls) = 1 THEN WriteClause(cls[1])
    ELSE WriteClause(cls[1]) \o <<",", " ">> \o WriteConstraint(Tail(cls))

SemverIdle ==
    /\ old_in = [release |-> <<>>, suffix |-> <<>>, text |-> <<>>]
    /\ new_in = [release |-> <<>>, suffix |-> <<>>, text |-> <<>>]
    /\ old_ver = <<>>
    /\ new_ver = <<>>
    /\ version_diff = None
    /\ issue_type = NoIssueType

ConstraintInit ==
    /\ pc = "input"
    /\ SemverIdle
    /\ ConfigIdle
    /\ FileIdle
    /\ RunIdle
    /\ \/ clauses = <<>> /\ constraint \in ShortConstraints
       \/ clauses \in ClauseLists /\ constraint = WriteConstraint(clauses)
    /\ bound = FALSE
    /\ extracted_version = None

IsVersionBound ==
    /\ pc = "input"
    /\ bound' = is_version_bound(constraint)
    /\ pc' = "checked"
    /\ UNCHANGED <<clauses, constraint, extracted_version, semverVars, configVars, fileVars, runVars>>

\* extract_version_from_constraint(constraint)
ExtractVersionFromConstraint ==
    /\ pc = "input"
    /\ extracted_version' = extract_version_from_constraint(constraint)
    /\ pc' = "extracted"
    /\ UNCHANGED <<clauses, constraint, bound, semverVars, configVars, fileVars, runVars>>

\* TerraformParser().extract_version(constraint)
ExtractVersion ==
    /\ pc = "input"
    /\ extracted_version' = extract_version(constraint)
    /\ pc' = "parser_extracted"
    /\ UNCHANGED <<clauses, constraint, bound, semverVars, configVars, fileVars, runVars>>

\* The detector with the default configuration processes the change the
\* parser makes of a declaration with this constraint
ProcessDependencyChange ==
    /\ pc = "input"
    /\ changes' = parse_dependencies(FilePath,
                       <<[source |-> "hashicorp/helm", version |-> constraint]>>)
    /\ issues' = _process_dependency_change(config, changes'[1])
    /\ pc' = "processed"
    /\ UNCHANGED <<constraintVars, semverVars, configVars, old_content, new_content, runVars>>

ConstraintNext ==
    \/ IsVersionBound
    \/ ExtractVersionFromConstraint
    \/ ExtractVersion
    \/ ProcessDependencyChange

SpecConstraint == ConstraintInit /\ [][ConstraintNext]_vars

(***************************************************************************)
(* Configurations handed to VersionDetector(config): no config, and every  *)
(* dict over the keys rules, ignore_packages and critical_packages whose   *)
(* rules hold up to MaxRuleOverrides kinds.                                *)
(***************************************************************************)
MaxRuleOverrides == 1

Packages == {"hashicorp/aws", "hashicorp/helm"}

PackageOrder == <<"hashicorp/aws", "hashicorp/helm">>

UserRules ==
    {PyNone} \cup
    { PyDict(f) : f \in UNION { [D -> Severities] :
                     D \in {E \in SUBSET IssueTypes :
                               Cardinality(E) <= MaxRuleOverrides} } }

UserIgnorePackages ==
    {PyNone, PyList(<<>>), PyList(PackageOrder)} \cup {PyList(<<p>>) : p \in Packages}

UserCriticalPackages ==
    {PyNone, PyDict(EmptyDict)} \cup
    { PyDict([q \in {p} |-> sev]) : p \in Packages, sev \in Severities }

WithKey(d, key, value) ==
    [k \in DOMAIN d \cup {key} |-> IF k = key THEN value ELSE d[k]]

\* The dicts of Ds, and each of them with key set to a value of Vs
WithOptionalKey(Ds, key, Vs) == Ds \cup {WithKey(d, key, v) : d \in Ds, v \in Vs}

UserDicts ==
    WithOptionalKey(
        WithOptionalKey(
            WithOptionalKey({EmptyDict}, "rules", UserRules),
            "ignore_packages", UserIgnorePackages),
        "critical_packages", UserCriticalPackages)

UserConfigs == {NoConfigArg} \cup {[given |-> TRUE, dict |-> d] : d \in UserDicts}

ConfigInit ==
    /\ pc = "start"
    /\ SemverIdle
    /\ ConstraintIdle
    /\ ConfigIdle
    /\ FileIdle
    /\ RunIdle

\* detector = VersionDetector(config)
Construct(Configs) ==
    /\ pc = "start"
    /\ \E arg \in Configs :
           /\ config_arg' = arg
           /\ config' = VersionDetector_init(arg)
    /\ pc' = "ready"
    /\ UNCHANGED <<semverVars, constraintVars, fileVars, runVars>>

\* What the caller does to an object of its config after the construction:
\* config["ignore_packages"].append("hashicorp/helm"),
\* config["critical_packages"]["hashicorp/helm"] = Severity.INFO,
\* config["rules"][IssueType.UNBOUND_VERSION] = Severity.INFO
CallerChanged(value, key) ==
    CASE key = "ignore_packages" -> PyList(value.items \o <<"hashicorp/helm">>)
      [] key = "critical_packages" ->
             PyDict(DictUpdate(value.items, [q \in {"hashicorp/helm"} |-> "info"]))
      [] key = "rules" ->
             PyDict(DictUpdate(value.items, [k \in {"unbound_version"} |-> "info"]))

\* The caller can change the object in place: a list for ignore_packages, a
\* dict for the two maps
CallerCanChange(value, key) ==
    value.type = (IF key = "ignore_packages" THEN "list" ELSE "dict")

\* The caller changes an object of the config it handed to the detector; a
\* shared object changes for the detector too
CallerChanges ==
    /\ pc = "ready"
    /\ config_arg.given
    /\ \E key \in DOMAIN config_arg.dict :
           /\ CallerCanChange(config_arg.dict[key], key)
           /\ config_arg' =
                  [config_arg EXCEPT !.dict[key] = CallerChanged(@, key)]
           /\ config' =
                  IF SharesObject(config_arg, key)
                  THEN [config EXCEPT ![key] = CallerChanged(config_arg.dict[key], key)]
                  ELSE config
    /\ pc' = "caller_changed"
    /\ UNCHANGED <<semverVars, constraintVars, fileVars, runVars>>

ConfigNext == Construct(UserConfigs) \/ CallerChanges

SpecConfig == ConfigInit /\ [][ConfigNext]_vars

(***************************************************************************)
(* The detection run on one Terraform file: the providers the file         *)
(* declares now (up to MaxDeps, a package possibly declared twice) and     *)
(* those it declared at the base revision, if it existed there.            *)
(***************************************************************************)
MaxDeps == 2

\* bound: 1.0.0 and 2.1.0 (pessimistic), and the partial 1.0, which
\* extract_version does not find
OldFileConstraints ==
    { <<"~", ">", " ", "1", ".", "0", ".", "0">>,
      <<"~", ">", " ", "2", ".", "1", ".", "0">>,
      <<"~", ">", " ", "1", ".", "0">> }

\* and: the wildcard and a lower bound on 2.1.0, both unbound, and 1.0.0-rc1,
\* equal to 1.0.0 in all three components
FileConstraints ==
    OldFileConstraints \cup
    { <<"*">>,
      <<">", "=", " ", "2", ".", "1", ".", "0">>,
      <<"=", " ", "1", ".", "0", ".", "0", "-", "r", "c", "1">> }

Providers == [source : Packages, version : FileConstraints]

NewContents == UNION { [1..n -> Providers] : n \in 0..MaxDeps }

\* The old file declares each package at most once, in PackageOrder
RECURSIVE DeclaredIn(_, _)
DeclaredIn(choice, k) ==
    IF k > Len(PackageOrder) THEN <<>>
    ELSE (IF choice[PackageOrder[k]] = None THEN <<>>
          ELSE <<[source |-> PackageOrder[k], version |-> choice[PackageOrder[k]]]>>)
         \o DeclaredIn(choice, k + 1)

OldContents ==
    {NoContent} \cup
    { [exists |-> TRUE, providers |-> DeclaredIn(choice, 1)] :
          choice \in [Packages -> OldFileConstraints \cup {None}] }

\* The configurations of the detection runs
CustomRules ==
    PyDict([k \in {"unbound_version", "major_version_bump"} |->
               IF k = "unbound_version" THEN "warning" ELSE "error"])

FileConfigs ==
    { NoConfigArg,
      [given |-> TRUE, dict |-> [rules |-> CustomRules]],
      [given |-> TRUE, dict |->
          [ignore_packages |-> PyNone, critical_packages |-> PyDict(EmptyDict)]],
      [given |-> TRUE, dict |->
          [ ignore_packages |-> PyList(<<>>),
            critical_packages |-> PyDict([q \in {"hashicorp/helm"} |-> "info"]) ]],
      [given |-> TRUE, dict |-> [ignore_packages |-> PyList(<<"hashicorp/aws">>)]],
      [given |-> TRUE, dict |->
          [ rules |-> CustomRules,
            ignore_packages |-> PyList(<<"hashicorp/helm">>),
            critical_packages |-> PyDict(EmptyDict) ]] }

Init ==
    /\ pc = "start"
    /\ SemverIdle
    /\ ConstraintIdle
    /\ ConfigIdle
    /\ FileIdle
    /\ RunIdle

\* issues = detector.detect_issues([FilePath])
DetectIssues ==
    /\ pc = "ready"
    /\ \E old \in OldContents, new \in NewContents :
           /\ old_content' = old
           /\ new_content' = new
           /\ changes' = get_dependency_changes(FilePath, old, new)
           /\ issues' = _process_file_for_issues(config, changes')
    /\ pc' = "detected"
    /\ UNCHANGED <<semverVars, constraintVars, configVars, runVars>>

Next == Construct(FileConfigs) \/ DetectIssues

Spec == Init /\ [][Next]_vars

(***************************************************************************)
(* The run of a command or of detect_issues over a list of up to MaxFiles  *)
(* files: Terraform files and one no parser matches, each unreadable,      *)
(* unparseable or with declarations, with or without old content.          *)
(***************************************************************************)
MaxFiles == 2

RunPaths ==
    { <<"a", ".", "t", "f">>, <<"b", ".", "t", "f">>, <<"a", ".", "m", "d">> }

Declaration(source, version) == [source |-> source, version |-> version]

\* helm at "~> 1.1.0"; helm at ">= 2.1.0" beside aws at "~> 1.0.0"; helm at
\* "> 2.1.0"; aws with a version that is no str before helm at ">= 2.1.0"
RunContents ==
    { Unreadable,
      Unparseable,
      Hcl(<< Declaration("hashicorp/helm", <<"~", ">", " ", "1", ".", "1", ".", "0">>) >>),
      Hcl(<< Declaration("hashicorp/helm", <<">", "=", " ", "2", ".", "1", ".", "0">>),
             Declaration("hashicorp/aws", <<"~", ">", " ", "1", ".", "0", ".", "0">>) >>),
      Hcl(<< Declaration("hashicorp/helm", <<">", " ", "2", ".", "1", ".", "0">>) >>),
      Hcl(<< Declaration("hashicorp/aws", NonStrVersion),
             Declaration("hashicorp/helm", <<">", "=", " ", "2", ".", "1", ".", "0">>) >>) }

\* No old content, or helm and aws both at "~> 1.0.0"
RunOldContents ==
    { NoContent,
      [ exists |-> TRUE,
        providers |->
            << Declaration("hashicorp/helm", <<"~", ">", " ", "1", ".", "0", ".", "0">>),
               Declaration("hashicorp/aws", <<"~", ">", " ", "1", ".", "0", ".", "0">>) >> ] }

RunFiles == [path : RunPaths, old : RunOldContents, current : RunContents]

RunFileLists == UNION { [1..n -> RunFiles] : n \in 0..MaxFiles }

\* The default configuration, and one whose rules lookup raises
RunConfigs == {NoConfigArg, [given |-> TRUE, dict |-> [rules |-> PyNone]]}

RunInit ==
    /\ pc = "start"
    /\ SemverIdle
    /\ ConstraintIdle
    /\ ConfigIdle
    /\ FileIdle
    /\ RunIdle

\* detect_issues(file_paths) is called
DetectIssuesCall ==
    /\ pc = "ready"
    /\ files' \in RunFileLists
    /\ next_file' = 1
    /\ issues' = <<>>
    /\ pc' = "running"
    /\ UNCHANGED <<semverVars, constraintVars, configVars,
                   old_content, new_content, changes, exit_code, format, report, issues_again>>

\* One iteration of the loop of detect_issues
ProcessFile ==
    /\ pc = "running"
    /\ next_file <= Len(files)
    /\ issues' = ExtendedIssues(issues, config, files[next_file])
    /\ next_file' = next_file + 1
    /\ UNCHANGED <<pc, semverVars, constraintVars, configVars,
                   old_content, new_content, changes, files, exit_code, format, report, issues_again>>

\* return issues
DetectIssuesReturn ==
    /\ pc = "running"
    /\ next_file > Len(files)
    /\ pc' = "returned"
    /\ UNCHANGED <<semverVars, constraintVars, configVars, fileVars, runVars>>

\* main, whose detector is VersionDetector(), reports in the format of
\* its --format option and exits after the detection
Main ==
    /\ pc = "returned"
    /\ config_arg = NoConfigArg
    /\ format' \in {"text", "json"}
    /\ report' = report_issues(issues, format')
    /\ exit_code' = main_exit_code(issues)
    /\ pc' = "main_exited"
    /\ UNCHANGED <<semverVars, constraintVars, configVars, fileVars, files, next_file, issues_again>>

\* check_file, whose detector is VersionDetector(), ends after the
\* detection on its one file
CheckFile ==
    /\ pc = "returned"
    /\ config_arg = NoConfigArg
    /\ Len(files) = 1
    /\ report' = IF issues # <<>> THEN report_issues(issues, "") ELSE report
    /\ exit_code' = check_file_exit_code(issues)
    /\ pc' = "check_file_exited"
    /\ UNCHANGED <<semverVars, constraintVars, configVars, fileVars, files, next_file, format, issues_again>>

RunNext ==
    \/ Construct(RunConfigs)
    \/ DetectIssuesCall
    \/ ProcessFile
    \/ DetectIssuesReturn
    \/ Main
    \/ CheckFile

SpecRun == RunInit /\ [][RunNext]_vars

(***************************************************************************)
(* Claims on compare_versions and analyze_version_change (SpecSemver)      *)
(***************************************************************************)
(***************************************************************************)
(* Issue lists handed to report_issues: up to MaxReported issues, each one *)
(* of the issues the detector makes of a file with a major bump, a major   *)
(* downgrade and a wildcard, or an issue of the caller's own that has no   *)
(* suggestion.                                                             *)
(***************************************************************************)
MaxReported == 3

ReportedOldContent ==
    [ exists |-> TRUE,
      providers |->
          << Declaration("hashicorp/aws", <<"~", ">", " ", "1", ".", "0", ".", "0">>),
             Declaration("hashicorp/helm", <<"~", ">", " ", "2", ".", "1", ".", "0">>) >> ]

ReportedContent ==
    << Declaration("hashicorp/aws", <<"~", ">", " ", "2", ".", "1", ".", "0">>),
       Declaration("hashicorp/helm", <<"~", ">", " ", "1", ".", "0", ".", "0">>),
       Declaration("hashicorp/random", <<"*">>) >>

DetectedIssues ==
    _process_file_for_issues(_default_config,
        get_dependency_changes(FilePath, ReportedOldContent, ReportedContent))

OwnIssue ==
    Issue("info", "loose_constraint",
          [text |-> "Loose constraint"],
          VersionChange("hashicorp/null", None, <<"3">>, None, <<"3">>, "versions.tf"),
          NoSuggestion)

ReportableIssues == SeqRange(DetectedIssues) \cup {OwnIssue}

ReportInputs == UNION { [1..n -> ReportableIssues] : n \in 0..MaxReported }

Formats == {"json", "text", ""}

ReportInit ==
    /\ pc = "input"
    /\ SemverIdle
    /\ ConstraintIdle
    /\ ConfigIdle
    /\ RunIdle
    /\ old_content = NoContent
    /\ new_content = <<>>
    /\ changes = <<>>
    /\ issues \in ReportInputs

\* detector.report_issues(issues, format)
ReportIssues ==
    /\ pc = "input"
    /\ format' \in Formats
    /\ report' = report_issues(issues, format')
    /\ pc' = "reported"
    /\ UNCHANGED <<semverVars, constraintVars, configVars, fileVars, files, next_file, exit_code, issues_again>>

ReportNext == ReportIssues

SpecReport == ReportInit /\ [][ReportNext]_vars

(***************************************************************************)
(* Two detect_issues calls on one detector with the same file_paths, of up *)
(* to MaxRepeatedFiles files, the files unchanged in between.              *)
(***************************************************************************)
MaxRepeatedFiles == 1

RepeatedFileLists == UNION { [1..n -> RunFiles] : n \in 0..MaxRepeatedFiles }

RepeatedConfigs == FileConfigs \cup RunConfigs

\* first = detector.detect_issues(file_paths)
DetectIssuesFirst ==
    /\ pc = "ready"
    /\ files' \in RepeatedFileLists
    /\ issues' = detect_issues(config, files', Len(files'))
    /\ config' = ConfigAfterDetection(config, issues')
    /\ pc' = "detected_once"
    /\ UNCHANGED <<semverVars, constraintVars, config_arg, old_content, new_content,
                   changes, next_file, exit_code, format, report, issues_again>>

\* second = detector.detect_issues(file_paths)
DetectIssuesSecond ==
    /\ pc = "detected_once"
    /\ issues_again' = detect_issues(config, files, Len(files))
    /\ config' = ConfigAfterDetection(config, issues_again')
    /\ pc' = "detected_twice"
    /\ UNCHANGED <<semverVars, constraintVars, config_arg, fileVars,
                   files, next_file, exit_code, format, report>>

RepeatNext ==
    \/ Construct(RepeatedConfigs)
    \/ DetectIssuesFirst
    \/ DetectIssuesSecond

SpecRepeat == Init /\ [][RepeatNext]_vars

\* The differences of the numbers the two versions were written from
WrittenDiff ==
    << Component(new_in, 1) - Component(old_in, 1),
       Component(new_in, 2) - Component(old_in, 2),
       Component(new_in, 3) - Component(old_in, 3) >>

BumpKinds == <<"major_version_bump", "minor_version_bump", "patch_version_bump">>

DowngradeKinds ==
    <<"major_version_downgrade", "minor_version_downgrade", "patch_version_downgrade">>

\* The kind the first nonzero component of a difference stands for
KindOfFirstNonzero(d) ==
    LET nonzero == {k \in 1..3 : d[k] # 0} IN
    IF nonzero = {} THEN NoIssueType
    ELSE LET k == CHOOSE j \in nonzero : \A i \in nonzero : j <= i
         IN  IF d[k] > 0 THEN BumpKinds[k] ELSE DowngradeKinds[k]

C2_ComponentwiseDifference ==
    pc = "compared" =>
        version_diff = IF Parses(old_in) /\ Parses(new_in) THEN WrittenDiff ELSE None

\* A partial old version ("2") against a full new one ("1.0.1")
C2_Witness ==
    /\ pc = "compared"
    /\ Len(old_in.release) = 1 /\ Len(new_in.release) = 3
    /\ Parses(old_in) /\ Parses(new_in)
    /\ version_diff # None
    /\ version_diff[1] < 0 /\ version_diff[3] > 0

(***************************************************************************)
(* Claims on is_version_bound (SpecConstraint)                             *)
(***************************************************************************)
StartsWith(t, w) == HasPrefixAt(t, 1, w)

StartsWithDigit(t) == Len(t) >= 1 /\ IsDigit(t[1])

\* The version portion of the constraint is a valid, possibly partial, version
CarriesValidVersion(t) ==
    /\ extract_version_from_constraint(t) # None
    /\ VersionParse(extract_version_from_constraint(t)) # None

\* C5: is_version_bound fails closed.  With t the constraint trimmed of
\* surrounding white space: it is false when t starts with ">=" or ">" and
\* when t is "*"; it is true exactly when t starts with "~>", "=" or a digit
\* and the version portion extracted from t is a valid version; every other
\* input (empty, unrecognised operator, operator without a valid version)
\* gives false.
C5_FailsClosed ==
    pc = "checked" =>
        LET t == strip(constraint) IN
        /\ (StartsWith(t, GreaterEqual) \/ StartsWith(t, Greater) \/ t = Wildcard)
               => ~bound
        /\ bound <=>
               /\ StartsWith(t, Pessimistic) \/ StartsWith(t, Equal) \/ StartsWithDigit(t)
               /\ CarriesValidVersion(t)

\* A bound operator in front of a version portion that is no valid version
C5_Witness ==
    /\ pc = "checked"
    /\ StartsWith(strip(constraint), Equal) \/ StartsWith(strip(constraint), Pessimistic)
    /\ extract_version_from_constraint(constraint) # None
    /\ ~CarriesValidVersion(strip(constraint))
    /\ ~bound

\* A clause that keeps the admitted major versions below some version
BoundsMajorAbove(cl) == cl.op \in {Less, LessEqual, Equal, Pessimistic, BareLiteral}

\* All clauses must hold, so the admitted major versions are bounded above
\* as soon as one clause bounds them above.
MajorsBoundedAbove(cls) == \E i \in 1..Len(cls) : BoundsMajorAbove(cls[i])

\* C6: over constraints made of comma-separated clauses, is_version_bound is
\* true exactly when the set of major versions the whole constraint admits
\* has an upper bound.
C6_BoundIffMajorsBoundedAbove ==
    (pc = "checked" /\ clauses # <<>>) => (bound <=> MajorsBoundedAbove(clauses))

\* The two suggestions of an unbound_version issue
WildcardSuggestion ==
    [ text |-> "Wildcard constraints are strictly forbidden. Use a specific version like '= 1.2.3' or a bounded constraint like '~> 1.2'" ]

PessimisticSuggestion(new_version) ==
    [ text |-> "Consider using '~> {new_version}' to bound to major version",
      new_version |-> new_version ]

\* C14: the suggestion of an unbound_version issue is the wildcard text
\* exactly when new_constraint trimmed of surrounding white space is "*";
\* for every other unbound constraint it is the pessimistic-bound text on
\* new_version.
C14_WildcardSuggestionIffTrimmedStar ==
    pc = "processed" =>
        \A k \in 1..Len(issues) :
            issues[k].issue_type = "unbound_version" =>
                /\ issues[k].change.new_constraint = constraint
                /\ (issues[k].suggestion = WildcardSuggestion)
                       <=> (strip(constraint) = Wildcard)
                /\ strip(constraint) # Wildcard =>
                       issues[k].suggestion =
                           PessimisticSuggestion(issues[k].change.new_version)

\* A wildcard with blanks around it gets the wildcard text
C14_Witness ==
    /\ pc = "processed"
    /\ constraint # Wildcard
    /\ strip(constraint) = Wildcard
    /\ Len(issues) = 1
    /\ issues[1].issue_type = "unbound_version"
    /\ issues[1].suggestion = WildcardSuggestion

(***************************************************************************)
(* Claims on the detection run (Spec)                                      *)
(***************************************************************************)
\* The packages the detector's configuration tells it to ignore
IgnoredNames ==
    IF config.ignore_packages.type = "list"
    THEN SeqRange(config.ignore_packages.items)
    ELSE {}

\* The changes of the file that are not ignored
CheckedChanges ==
    {changes[i] : i \in {j \in 1..Len(changes) :
                            changes[j].package_name \notin IgnoredNames}}

\* How often get_dependency_changes returned this very change
Occurrences(c) == Cardinality({i \in 1..Len(changes) : changes[i] = c})

\* How many issues of the given kinds were emitted for this change
Emitted(c, kinds) ==
    Cardinality({k \in 1..Len(issues) :
                    issues[k].change = c /\ issues[k].issue_type \in kinds})

VersionChangeKinds == SeqRange(BumpKinds) \cup SeqRange(DowngradeKinds)

BothParse(c) ==
    /\ c.old_version # None
    /\ VersionParse(c.old_version) # None
    /\ VersionParse(c.new_version) # None

\* C3: for a change that is not ignored, a bump or downgrade issue is
\* emitted exactly when old_version is present, differs from new_version,
\* both versions parse and some component differs; when a version does not
\* parse, nothing is emitted for this check and the unbound check of the
\* same change is as for any other change.
C3_VersionChangeIssueIff ==
    pc = "detected" =>
        \A c \in CheckedChanges :
            /\ Emitted(c, VersionChangeKinds) =
                  IF /\ c.old_version # None
                     /\ c.old_version # c.new_version
                     /\ BothParse(c)
                     /\ VersionParse(c.old_version) # VersionParse(c.new_version)
                  THEN Occurrences(c)
                  ELSE 0
            /\ (c.old_version # None /\ ~BothParse(c)) =>
                  Emitted(c, {"unbound_version"}) =
                      IF is_version_bound(c.new_constraint) THEN 0 ELSE Occurrences(c)

\* A changed dependency whose new version does not parse: its unbound issue
\* is emitted, no bump or downgrade issue is
C3_Witness ==
    /\ pc = "detected"
    /\ \E c \in CheckedChanges :
           /\ c.old_version # None
           /\ c.old_version # c.new_version
           /\ VersionParse(c.old_version) # None
           /\ VersionParse(c.new_version) = None
           /\ Emitted(c, {"unbound_version"}) = 1
           /\ Emitted(c, VersionChangeKinds) = 0
    /\ \E c \in CheckedChanges : Emitted(c, VersionChangeKinds) = 1

\* C4: for every change that is not ignored, exactly one unbound_version
\* issue is emitted when is_version_bound(new_constraint) is false and none
\* when it is true, whether the dependency is new, changed or unchanged.
C4_UnboundIssueIff ==
    pc = "detected" =>
        \A c \in CheckedChanges :
            Emitted(c, {"unbound_version"}) =
                IF is_version_bound(c.new_constraint) THEN 0 ELSE Occurrences(c)

\* A new dependency with an unbound constraint beside a changed one with a
\* bound constraint
C4_Witness ==
    /\ pc = "detected"
    /\ \E c \in CheckedChanges :
           /\ c.old_version = None
           /\ ~is_version_bound(c.new_constraint)
           /\ Emitted(c, {"unbound_version"}) = 1
    /\ \E c \in CheckedChanges :
           /\ c.old_version # None
           /\ c.old_version # c.new_version
           /\ is_version_bound(c.new_constraint)
           /\ Emitted(c, {"unbound_version"}) = 0

\* The critical_packages and rules in force
CriticalInForce ==
    IF config.critical_packages.type = "dict"
    THEN config.critical_packages.items
    ELSE EmptyDict

\* C7: the severity of every emitted issue is critical_packages[package]
\* when the package is a key of critical_packages and rules[kind]
\* otherwise, for unbound, bump and downgrade issues alike.
C7_SeverityResolution ==
    pc = "detected" =>
        \A k \in 1..Len(issues) :
            issues[k].severity =
                IF issues[k].change.package_name \in DOMAIN CriticalInForce
                THEN CriticalInForce[issues[k].change.package_name]
                ELSE config.rules.items[issues[k].issue_type]

\* An unbound issue and a bump issue on a package whose override differs
\* from the rule of either kind
C7_Witness ==
    /\ pc = "detected"
    /\ \E k1, k2 \in 1..Len(issues) :
           /\ issues[k1].issue_type = "unbound_version"
           /\ issues[k2].issue_type = "major_version_bump"
           /\ \A k \in {k1, k2} :
                  /\ issues[k].change.package_name \in DOMAIN CriticalInForce
                  /\ issues[k].severity # config.rules.items[issues[k].issue_type]

\* The configuration with nothing ignored
NothingIgnored == [config EXCEPT !.ignore_packages = PyList(<<>>)]

IssueNotIgnored(issue) == issue.change.package_name \notin IgnoredNames

\* C8: no issue names a package of ignore_packages, and the issues of the
\* other packages are those reported when nothing is ignored.
C8_IgnoredPackagesSilent ==
    pc = "detected" =>
        /\ \A k \in 1..Len(issues) : issues[k].change.package_name \notin IgnoredNames
        /\ issues = SelectSeq(_process_file_for_issues(NothingIgnored, changes),
                              IssueNotIgnored)

\* An ignored package with an unbound constraint and a major bump, in a file
\* where another package has issues
C8_Witness ==
    /\ pc = "detected"
    /\ \E i \in 1..Len(changes) :
           /\ changes[i].package_name \in IgnoredNames
           /\ ~is_version_bound(changes[i].new_constraint)
           /\ changes[i].old_version # None
           /\ analyze_version_change(changes[i].old_version, changes[i].new_version)
                 = "major_version_bump"
    /\ issues # <<>>

\* The old file declares the package
OldDeclared(name) ==
    /\ old_content.exists
    /\ \E i \in 1..Len(old_content.providers) : old_content.providers[i].source = name

\* The old file's declaration of the package
OldDeclaration(name) ==
    old_content.providers[CHOOSE i \in 1..Len(old_content.providers) :
                              old_content.providers[i].source = name]

\* The version the parser gives a declaration: the full version found in
\* its constraint, or the constraint itself
DeclaredVersion(provider) ==
    IF extract_version(provider.version) # None
    THEN extract_version(provider.version)
    ELSE provider.version

OldFieldsOfOldDeclaration(c) ==
    /\ (c.old_version = None) <=> ~OldDeclared(c.package_name)
    /\ (c.old_version = None) <=> (c.old_constraint = None)
    /\ OldDeclared(c.package_name) =>
           /\ c.old_constraint = OldDeclaration(c.package_name).version
           /\ c.old_version = DeclaredVersion(OldDeclaration(c.package_name))
    /\ c.new_version # None
    /\ c.new_constraint # None

\* C11: in every VersionChange of get_dependency_changes, old_version is
\* None exactly when the old file does not declare the package and exactly
\* when old_constraint is None; for a package the old file declares both are
\* the old declaration's version and constraint; new_version and
\* new_constraint are always present.
C11_OldFieldsFromOldDeclaration ==
    pc = "detected" => \A i \in 1..Len(changes) : OldFieldsOfOldDeclaration(changes[i])

\* One package carried over from the old file with another constraint, one
\* package new in a file that existed
C11_Witness ==
    /\ pc = "detected"
    /\ old_content.exists
    /\ \E i, j \in 1..Len(changes) :
           /\ changes[i].old_constraint # None
           /\ changes[i].old_constraint # changes[i].new_constraint
           /\ changes[i].old_version # changes[i].old_constraint
           /\ changes[j].old_version = None
           /\ changes[j].old_constraint = None

\* The change at position i is made from the declaration at position i
FromDeclaration(i) ==
    /\ changes[i].package_name = new_content[i].source
    /\ changes[i].new_constraint = new_content[i].version
    /\ changes[i].new_version = DeclaredVersion(new_content[i])

\* C12: get_dependency_changes returns one VersionChange for every
\* declaration of the current content, in the declarations' order, none
\* dropped and none merged, with or without old content.
C12_OneChangePerDeclaration ==
    pc = "detected" =>
        /\ Len(changes) = Len(new_content)
        /\ \A i \in 1..Len(changes) : FromDeclaration(i)

\* C13: without old content every declaration of the current file is
\* returned as an addition, old_version and old_constraint None, and every
\* issue of the file is an unbound_version issue.
C13_NoOldContentAllAdditions ==
    (pc = "detected" /\ ~old_content.exists) =>
        /\ Len(changes) = Len(new_content)
        /\ \A i \in 1..Len(changes) :
               /\ FromDeclaration(i)
               /\ changes[i].old_version = None
               /\ changes[i].old_constraint = None
        /\ \A k \in 1..Len(issues) : issues[k].issue_type = "unbound_version"

\* A new file with an unbound declaration and a bound one
C13_Witness ==
    /\ pc = "detected"
    /\ ~old_content.exists
    /\ Len(changes) = 2
    /\ \E c \in CheckedChanges : Emitted(c, {"unbound_version"}) = 1
    /\ \E c \in CheckedChanges : Emitted(c, {"unbound_version"}) = 0

\* The unbound issue of a change goes right before its bump or downgrade issue
UnboundComesFirst(k) ==
    (/\ issues[k].issue_type \in VersionChangeKinds
     /\ Emitted(issues[k].change, {"unbound_version"}) > 0) =>
        /\ k > 1
        /\ issues[k - 1].issue_type = "unbound_version"
        /\ issues[k - 1].change = issues[k].change

\* C15: a change that is not ignored yields at most one unbound_version
\* issue and at most one bump or downgrade issue, so never more than two
\* issues and never two bump or downgrade kinds; when both are emitted the
\* unbound_version issue comes first.
C15_AtMostOneIssuePerCheck ==
    pc = "detected" =>
        /\ \A c \in CheckedChanges :
               /\ Emitted(c, {"unbound_version"}) <= Occurrences(c)
               /\ Emitted(c, VersionChangeKinds) <= Occurrences(c)
               /\ Emitted(c, IssueTypes) <= 2 * Occurrences(c)
        /\ \A k \in 1..Len(issues) :
               /\ issues[k].issue_type \in {"unbound_version"} \cup VersionChangeKinds
               /\ issues[k].change \in CheckedChanges
               /\ UnboundComesFirst(k)

\* An unbound constraint whose version went up: both issues, in order
C15_Witness ==
    /\ pc = "detected"
    /\ \E k \in 1..Len(issues) :
           /\ issues[k].issue_type = "major_version_bump"
           /\ k > 1
           /\ issues[k - 1].issue_type = "unbound_version"
           /\ issues[k - 1].change = issues[k].change
           /\ Emitted(issues[k].change, IssueTypes) = 2

(***************************************************************************)
(* Claims on the resolved configuration (SpecConfig)                       *)
(***************************************************************************)
\* The config was given and holds this key
Supplied(key) == config_arg.given /\ key \in DOMAIN config_arg.dict

\* The rules the user supplies, none when no rules map is given
SuppliedRules ==
    IF Supplied("rules") /\ config_arg.dict["rules"].type = "dict"
    THEN config_arg.dict["rules"].items
    ELSE EmptyDict

\* No config, an empty config, or a config whose rules value is a map
AbsentEmptyOrRulesMap ==
    \/ ~config_arg.given
    \/ DOMAIN config_arg.dict = {}
    \/ Supplied("rules") /\ config_arg.dict["rules"].type = "dict"

\* C9: for an absent config, an empty config or a config whose rules value
\* is a map, the resolved rules are a map with a severity for each of the
\* eight kinds: the user's severity for a kind the user supplies, the
\* built-in default for every other kind.
C9_RulesOverlaidOnDefaults ==
    (pc = "ready" /\ AbsentEmptyOrRulesMap) =>
        /\ config.rules.type = "dict"
        /\ IssueTypes \subseteq DOMAIN config.rules.items
        /\ \A kind \in IssueTypes :
               config.rules.items[kind] =
                   IF kind \in DOMAIN SuppliedRules
                   THEN SuppliedRules[kind]
                   ELSE DefaultRules[kind]

\* The user overrides one kind against its default; another kind keeps its
\* default
C9_Witness ==
    /\ pc = "ready"
    /\ \E kind \in DOMAIN SuppliedRules :
           /\ SuppliedRules[kind] # DefaultRules[kind]
           /\ config.rules.items[kind] = SuppliedRules[kind]
    /\ \E kind \in IssueTypes \ DOMAIN SuppliedRules :
           config.rules.items[kind] = DefaultRules[kind]

\* C10: ignore_packages and critical_packages resolve to exactly the user's
\* value when the user supplies the key, an empty list or map included (an
\* empty critical_packages leaves no override for hashicorp/aws and
\* hashicorp/kubernetes), and to the built-in default when the key is not
\* supplied.
C10_SuppliedKeyReplacesDefault ==
    pc = "ready" =>
        /\ \A key \in {"ignore_packages", "critical_packages"} :
               config[key] = IF Supplied(key)
                             THEN config_arg.dict[key]
                             ELSE _default_config[key]
        /\ (Supplied("critical_packages")
              /\ config_arg.dict["critical_packages"] = PyDict(EmptyDict)) =>
               \A p \in DOMAIN DefaultCriticalPackages, base \in Severities :
                   _resolve_severity(config, base, p) = base
        /\ (Supplied("ignore_packages")
              /\ config_arg.dict["ignore_packages"] = PyList(<<>>)) =>
               \A p \in Packages : ~_should_ignore_package(config, p)

\* An empty critical_packages beside rules, ignore_packages not supplied:
\* the built-in overrides are gone and the default ignore list is kept
C10_Witness ==
    /\ pc = "ready"
    /\ Supplied("critical_packages") /\ Supplied("rules")
    /\ ~Supplied("ignore_packages")
    /\ config_arg.dict["critical_packages"] = PyDict(EmptyDict)
    /\ DOMAIN CriticalPackages(config) = {}
    /\ config.ignore_packages = _default_config.ignore_packages

(***************************************************************************)
(* Claims on the run over a list of files and on the commands (SpecRun)    *)
(***************************************************************************)
\* Some issue has severity error or critical
SomeErrorOrCritical ==
    \E k \in 1..Len(issues) : issues[k].severity \in {"error", "critical"}

\* C16: after a detection that did not raise, main exits with a nonzero
\* status exactly when some issue has severity error or critical; the
\* status is 0 without issues and with issues of severity info or warning
\* only.
C16_MainExitsNonzeroIffError ==
    pc = "main_exited" =>
        /\ (exit_code # 0) <=> SomeErrorOrCritical
        /\ issues = <<>> => exit_code = 0

\* Issues, warnings only: status 0
C16_Witness ==
    /\ pc = "main_exited"
    /\ issues # <<>>
    /\ \A k \in 1..Len(issues) : issues[k].severity = "warning"
    /\ exit_code = 0

\* C17: check_file exits with a nonzero status when some issue has severity
\* error or critical and with status 0 otherwise, also when the only issues
\* have severity info or warning.
C17_CheckFileExitsNonzeroIffError ==
    pc = "check_file_exited" => ((exit_code # 0) <=> SomeErrorOrCritical)

\* The file contributes nothing: no parser matches it, it cannot be read or
\* parsed, or processing one of its changes raises
ContributesNothing(f) ==
    \/ ~EndsWith(f.path, <<".", "t", "f">>)
    \/ f.current.kind \in {"unreadable", "unparseable"}
    \/ \E i \in 1..Len(FileChanges(f)) :
           /\ FileChanges(f)[i].package_name \notin IgnoredNames
           /\ ChangeRaises(config, FileChanges(f)[i])

\* The issues detect_issues returns for the file alone
IssuesOfFileAlone(f) ==
    IF ContributesNothing(f) THEN <<>>
    ELSE IssuesOfChanges(config,
                         get_dependency_changes(f.path, f.old, f.current.providers), 1)

\* The issues of the files at positions i to n alone, one after the other
RECURSIVE IssuesOfFilesAlone(_, _)
IssuesOfFilesAlone(i, n) ==
    IF i > n THEN <<>>
    ELSE IssuesOfFileAlone(files[i]) \o IssuesOfFilesAlone(i + 1, n)

\* C18: detect_issues returns the issues of each file alone, concatenated in
\* list order; a file with no matching parser, with unreadable or
\* unparseable content or whose processing raises contributes none, the
\* run goes on and the other files' issues are as without it.
C18_IssuesConcatenatedPerFile ==
    /\ pc = "running" => issues = IssuesOfFilesAlone(1, next_file - 1)
    /\ pc = "returned" => issues = IssuesOfFilesAlone(1, Len(files))

\* The second file's issues are reported after a first file that
\* contributes nothing
C18_Witness ==
    /\ pc = "returned"
    /\ Len(files) = 2
    /\ ContributesNothing(files[1])
    /\ ~ContributesNothing(files[2])
    /\ issues # <<>>
    /\ issues = IssuesOfFileAlone(files[2])

WellFormed(provider) == provider.version # NonStrVersion

\* The file without its malformed declarations
WithoutMalformed(f) ==
    [f EXCEPT !.current.providers = SelectSeq(f.current.providers, WellFormed)]

RECURSIVE IssuesWithoutMalformed(_)
IssuesWithoutMalformed(i) ==
    IF i > Len(files) THEN <<>>
    ELSE FileIssues(config, WithoutMalformed(files[i])) \o IssuesWithoutMalformed(i + 1)

\* C19: a malformed declaration does not keep the issues of the other
\* declarations of its file from being reported: the issues are those of
\* the files without their malformed declarations.
C19_MalformedDeclarationIsolated ==
    pc = "returned" => issues = IssuesWithoutMalformed(1)

SameTexts(i, j) ==
    /\ issues[i].message = issues[j].message
    /\ issues[i].suggestion = issues[j].suggestion

AgreeOnKindPackageVersions(i, j) ==
    /\ issues[i].issue_type = issues[j].issue_type
    /\ issues[i].change.package_name = issues[j].change.package_name
    /\ issues[i].change.old_version = issues[j].change.old_version
    /\ issues[i].change.new_version = issues[j].change.new_version

\* C20: two issues that agree on kind, package name, old_version and
\* new_version have the same message and the same suggestion.
C20_TextsFromKindPackageVersions ==
    pc = "returned" =>
        \A i, j \in 1..Len(issues) : AgreeOnKindPackageVersions(i, j) => SameTexts(i, j)

\* C20 as amended: two issues that agree on kind, package name, old_version,
\* new_version and new_constraint have the same message and the same
\* suggestion; the file path has no influence.
C20_TextsFromKindPackageVersionsConstraint ==
    pc = "returned" =>
        \A i, j \in 1..Len(issues) :
            (/\ AgreeOnKindPackageVersions(i, j)
             /\ issues[i].change.new_constraint = issues[j].change.new_constraint)
                => SameTexts(i, j)

\* The same unbound declaration in two files
C20_Witness ==
    /\ pc = "returned"
    /\ \E i, j \in 1..Len(issues) :
           /\ issues[i].issue_type = "unbound_version"
           /\ AgreeOnKindPackageVersions(i, j)
           /\ issues[i].change.new_constraint = issues[j].change.new_constraint
           /\ issues[i].change.file_path # issues[j].change.file_path
           /\ SameTexts(i, j)

\* The current content declares the package
CurrentlyDeclared(name) ==
    \E i \in 1..Len(new_content) : new_content[i].source = name

\* The packages only the old file declares
RemovedPackages ==
    IF old_content.exists
    THEN {old_content.providers[i].source : i \in 1..Len(old_content.providers)}
             \ {new_content[i].source : i \in 1..Len(new_content)}
    ELSE {}

\* C30: a package the old content declares and the current content does not
\* yields no VersionChange and no issue: every change and every issue of
\* the file names a package the current content declares.
C30_RemovedPackagesSilent ==
    pc = "detected" =>
        /\ \A i \in 1..Len(changes) : CurrentlyDeclared(changes[i].package_name)
        /\ \A k \in 1..Len(issues) : CurrentlyDeclared(issues[k].change.package_name)

\* The old file declares a package the current file dropped, next to one
\* the current file still declares and that gets an issue
C30_Witness ==
    /\ pc = "detected"
    /\ RemovedPackages # {}
    /\ changes # <<>>
    /\ issues # <<>>

\* The two inputs are versions with the same three components
SameComponents ==
    /\ Parses(old_in) /\ Parses(new_in)
    /\ \A k \in 1..3 : Component(old_in, k) = Component(new_in, k)

\* C28: a pre-release suffix never influences the classification: for two
\* versions with equal major, minor and patch and different tags
\* compare_versions returns (0, 0, 0) and analyze_version_change no kind,
\* and for any two versions analyze_version_change returns the kind it
\* returns for the same versions written without their suffixes.
C28_SuffixNeverClassifies ==
    /\ (pc = "compared" /\ SameComponents /\ old_in.suffix # new_in.suffix)
           => version_diff = <<0, 0, 0>>
    /\ (pc = "analyzed" /\ SameComponents /\ old_in.suffix # new_in.suffix)
           => issue_type = NoIssueType
    /\ (pc = "analyzed" /\ Parses(old_in) /\ Parses(new_in))
           => issue_type =
                  analyze_version_change(JoinDots(old_in.release), JoinDots(new_in.release))

\* 1.0.0-alpha.1 against 1.0.0-rc1: no kind although the strings differ
C28_Witness ==
    /\ pc = "analyzed"
    /\ SameComponents
    /\ old_in.suffix = PreReleaseSuffix
    /\ new_in.suffix = ReleaseCandidateSuffix
    /\ Len(old_in.release) = 3
    /\ Len(new_in.release) = 3
    /\ old_ver # new_ver
    /\ issue_type = NoIssueType

(***************************************************************************)
(* Claims on the version extraction (SpecConstraint)                       *)
(***************************************************************************)
HasDigit(t) == \E i \in 1..Len(t) : IsDigit(t[i])

FirstDigitPosition(t) ==
    CHOOSE i \in 1..Len(t) : IsDigit(t[i]) /\ \A j \in 1..(i - 1) : ~IsDigit(t[j])

\* One to three dot-separated numbers
DottedNumbers(t) ==
    /\ t # <<>>
    /\ IsDigit(t[1])
    /\ IsDigit(t[Len(t)])
    /\ \A i \in 1..Len(t) : IsDigit(t[i]) \/ t[i] = "."
    /\ \A i \in 1..(Len(t) - 1) : ~(t[i] = "." /\ t[i + 1] = ".")
    /\ Cardinality({i \in 1..Len(t) : t[i] = "."}) <= 2

\* The position of the first "-" of t (Len(t) + 1 if none)
FirstDash(t) ==
    IF \E i \in 1..Len(t) : t[i] = "-"
    THEN CHOOSE i \in 1..Len(t) : t[i] = "-" /\ \A j \in 1..(i - 1) : t[j] # "-"
    ELSE Len(t) + 1

\* One to three numeric components with an optional pre-release suffix
VersionShaped(t) ==
    /\ DottedNumbers(SubSeq(t, 1, FirstDash(t) - 1))
    /\ FirstDash(t) <= Len(t) =>
           /\ FirstDash(t) < Len(t)
           /\ \A i \in (FirstDash(t) + 1)..Len(t) : IsSuffixChar(t[i])

\* The text of n characters that starts at the first digit of t
RunAtFirstDigit(t, n) == SubSeq(t, FirstDigitPosition(t), FirstDigitPosition(t) + n - 1)

\* The first clause that carries a version (0 if none does)
FirstVersionClause(cls) ==
    IF \E i \in 1..Len(cls) : cls[i].op # Wildcard
    THEN CHOOSE i \in 1..Len(cls) :
             cls[i].op # Wildcard /\ \A j \in 1..(i - 1) : cls[j].op = Wildcard
    ELSE 0

\* C23: extract_version_from_constraint returns None when the constraint
\* holds no digit, and otherwise the longest version-shaped run (one to
\* three numeric components, optional pre-release suffix) that starts at the
\* constraint's first digit, whatever surrounds it; of a constraint written
\* from clauses that is the version of the first clause that has one.
C23_FirstVersionShapedRun ==
    pc = "extracted" =>
        /\ ~HasDigit(constraint) => extracted_version = None
        /\ HasDigit(constraint) =>
               /\ extracted_version # None
               /\ extracted_version = RunAtFirstDigit(constraint, Len(extracted_version))
               /\ VersionShaped(extracted_version)
               /\ \A n \in (Len(extracted_version) + 1)..
                              (Len(constraint) - FirstDigitPosition(constraint) + 1) :
                      ~VersionShaped(RunAtFirstDigit(constraint, n))
        /\ (clauses # <<>> /\ FirstVersionClause(clauses) # 0) =>
               extracted_version = clauses[FirstVersionClause(clauses)].version

\* ">= 1.0.0, < 2.0": the lower bound of a two-clause constraint
C23_Witness ==
    /\ pc = "extracted"
    /\ Len(clauses) = 2
    /\ clauses[1].op = GreaterEqual
    /\ clauses[2].op = Less
    /\ clauses[1].version # clauses[2].version
    /\ extracted_version = clauses[1].version

\* C24: TerraformParser.extract_version returns the version a constraint
\* carries, partial versions included ("2.0" for "~> 2.0", "1" for "~> 1"),
\* and None only when the constraint holds no version at all.
C24_PartialVersionsExtracted ==
    pc = "parser_extracted" =>
        /\ (extracted_version = None) <=> ~HasDigit(constraint)
        /\ (clauses # <<>> /\ clauses[1].op # Wildcard) =>
               extracted_version = clauses[1].version

(***************************************************************************)
(* Claims on partial versions in the detection run (Spec)                  *)
(***************************************************************************)
\* The major number of the version a constraint carries, full or partial
CarriedMajor(t) == VersionParse(extract_version_from_constraint(t))[1]

\* A change of a package both files declare, both constraints bound and
\* carrying a valid version
BoundInBothFiles(c) ==
    /\ c.old_constraint # None
    /\ CarriesValidVersion(c.old_constraint)
    /\ CarriesValidVersion(c.new_constraint)
    /\ is_version_bound(c.new_constraint)

\* C25: for a package that is not ignored and that both files declare with
\* constraints carrying valid versions, full or partial, a
\* major_version_bump issue is emitted when the new major number is greater
\* and a major_version_downgrade issue when it is smaller.
C25_MajorChangeOfPartialVersions ==
    pc = "detected" =>
        \A c \in CheckedChanges :
            BoundInBothFiles(c) =>
                /\ CarriedMajor(c.new_constraint) > CarriedMajor(c.old_constraint)
                       => Emitted(c, {"major_version_bump"}) >= 1
                /\ CarriedMajor(c.new_constraint) < CarriedMajor(c.old_constraint)
                       => Emitted(c, {"major_version_downgrade"}) >= 1

\* C26: in every unbound_version suggestion that proposes a constraint
\* ("Consider using '~> ...'"), the text after "~>" is a bare version
\* literal: no wildcard and no comparison operator in it.
C26_SuggestedBoundIsVersionLiteral ==
    pc = "processed" =>
        \A k \in 1..Len(issues) :
            ( /\ issues[k].issue_type = "unbound_version"
              /\ issues[k].suggestion # WildcardSuggestion )
                => VersionShaped(issues[k].suggestion.new_version)

(***************************************************************************)
(* Claims on the severity of critical packages (Spec)                      *)
(***************************************************************************)
\* The severity the rules give the issue's kind
RuleSeverity(issue) == config.rules.items[issue.issue_type]

\* C27 as stated: critical_packages only raises the severity, so that no
\* emitted issue has a severity below the rule severity of its kind.
C27_SeverityOnlyUpgraded ==
    pc = "detected" =>
        \A k \in 1..Len(issues) :
            SeverityRank(issues[k].severity) >= SeverityRank(RuleSeverity(issues[k]))

\* C27 amended: an issue is below the rule severity of its kind exactly
\* when its package has an override in critical_packages that is below that
\* rule severity, and above it exactly when the override is above it; with
\* an override of critical no issue of the package is below its rule.
C27_OverrideMayLower ==
    pc = "detected" =>
        \A k \in 1..Len(issues) :
            LET name == issues[k].change.package_name
                rule == SeverityRank(RuleSeverity(issues[k]))
                emitted == SeverityRank(issues[k].severity)
            IN  /\ emitted < rule <=>
                       /\ name \in DOMAIN CriticalInForce
                       /\ SeverityRank(CriticalInForce[name]) < rule
                /\ emitted > rule <=>
                       /\ name \in DOMAIN CriticalInForce
                       /\ SeverityRank(CriticalInForce[name]) > rule
                /\ (name \in DOMAIN CriticalInForce /\ CriticalInForce[name] = "critical")
                       => emitted >= rule

\* One run in which an override of info lowers an unbound_version issue
\* below its rule severity
C27_Witness ==
    /\ pc = "detected"
    /\ \E k \in 1..Len(issues) :
           /\ issues[k].issue_type = "unbound_version"
           /\ issues[k].change.package_name \in DOMAIN CriticalInForce
           /\ issues[k].severity = "info"
           /\ SeverityRank(RuleSeverity(issues[k])) > SeverityRank("info")

(***************************************************************************)
(* Claims on the JSON report (SpecReport)                                  *)
(***************************************************************************)
JsonFields == {"severity", "type", "message", "file", "package", "suggestion"}

\* The object is the JSON object of the issue
ObjectOfIssue(object, issue) ==
    /\ DOMAIN object = JsonFields
    /\ object.severity = issue.severity
    /\ object.severity \in Severities
    /\ object.type = issue.issue_type
    /\ object.type \in IssueTypes
    /\ object.message = issue.message
    /\ object.file = issue.change.file_path
    /\ object.package = issue.change.package_name
    /\ object.suggestion =
           IF issue.suggestion = NoSuggestion THEN JsonNull ELSE issue.suggestion

\* C22: the JSON report is a list with one object per issue, in the order
\* of the issues, each with exactly the fields severity, type, message,
\* file, package and suggestion: the severity and kind by their lower-case
\* names, file and package those of the issue's change, suggestion null
\* when the issue has none.
C22_JsonReportObjects ==
    (pc = "reported" /\ format = "json") =>
        /\ DOMAIN report = {"objects"}
        /\ Len(report.objects) = Len(issues)
        /\ \A k \in 1..Len(issues) : ObjectOfIssue(report.objects[k], issues[k])

\* A report of three different issues, one of them without suggestion
C22_Witness ==
    /\ pc = "reported"
    /\ format = "json"
    /\ Len(issues) = 3
    /\ issues[1] # issues[2]
    /\ issues[2].suggestion = NoSuggestion
    /\ issues[3].issue_type = "unbound_version"
    /\ report.objects[2].suggestion = JsonNull
    /\ report.objects[3].suggestion # JsonNull

SameResults(cfg1, cfg2) ==
    /\ cfg1.rules = cfg2.rules
    /\ \A p \in Packages :
           /\ _should_ignore_package(cfg1, p) = _should_ignore_package(cfg2, p)
           /\ \A sev \in Severities :
                  _resolve_severity(cfg1, sev, p) = _resolve_severity(cfg2, sev, p)

\* C29: the detector's resolved configuration is isolated from the caller:
\* what the caller does, after the construction, to the rules map, the
\* ignore_packages list or the critical_packages map of the config it
\* handed over changes neither which packages the detector ignores nor the
\* severities it resolves.
C29_ConfigurationIsolated ==
    [][pc' = "caller_changed" => SameResults(config, config')]_vars
====
